---- MODULE Spec2Model ----
(***************************************************************************)
(* StoryForge: the pipeline of app.py (script -> narration -> captions ->  *)
(* search queries -> stock video lookup -> render) and the functions it    *)
(* calls, as a sequential state machine.  External services (the LLM, the  *)
(* TTS engine, the transcription models, the Pexels search) are            *)
(* nondeterministic choices over the results their wrappers can produce.   *)
(***************************************************************************)
EXTENDS Integers, Sequences, FiniteSets, TLC

\* ---------------------------------------------------------------- bounds
\* longest list a transcription method hands back
MaxCaps == 2
\* longest list of search segments the LLM answer parses to
MaxSegs == 2

\* ------------------------------------------------------ program constants
\* validate_groq_api: a key is valid when len(key) > 30
MinKeyLen == 30
\* getVideoSearchQueriesTimed: max_retries
max_retries == 3

\* ---------------------------------------------------------------- values
\* Python's None
None == [t |-> "None"]
\* a Python list / tuple, tagged so that it can be compared with None
List(s) == [t |-> "list", v |-> s]
\* a Python str
Str(s) == [t |-> "str", v |-> s]
\* Python truthiness of the values the pipeline passes around
Truthy(x) ==
    CASE x.t = "None" -> FALSE
      [] x.t = "bool" -> x.v
      [] x.t = "list" -> Len(x.v) > 0
      [] x.t = "tuple" -> Len(x.v) > 0
      [] x.t = "str"  -> Len(x.v) > 0
      [] OTHER -> TRUE
Bool(b) == [t |-> "bool", v |-> b]

\* the stages of main, in the order main calls them
StageOrder ==
    << "generate_script", "generate_audio", "generate_timed_captions",
       "getVideoSearchQueriesTimed", "generate_video_url", "get_output_media" >>

\* GROQ_API_KEY: -1 stands for an unset variable, otherwise the key's length
GroqKeys == {-1, 0, MinKeyLen, MinKeyLen + 1}
Orientations == {"portrait", "landscape"}

\* validate_groq_api / the module-level test of video_search_query_generator
KeyValid(k) == k /= -1 /\ k > MinKeyLen

Last(s) == s[Len(s)]

\* ---------------------------------------------------------------- strings
\* A str is a sequence of characters; " " is the whitespace character and a
\* fixed message of the program is one opaque character.
IsSpace(c) == c = " "

RECURSIVE LStrip(_)
LStrip(s) == IF s /= <<>> /\ IsSpace(Head(s)) THEN LStrip(Tail(s)) ELSE s

RECURSIVE RStrip(_)
RStrip(s) ==
    IF s /= <<>> /\ IsSpace(s[Len(s)]) THEN RStrip(SubSeq(s, 1, Len(s) - 1)) ELSE s

\* str.strip()
Strip(s) == RStrip(LStrip(s))

\* ' '.join(text.split()): strip, and collapse each run of whitespace
RECURSIVE CollapseSpaces(_)
CollapseSpaces(s) ==
    IF Len(s) < 2 THEN s
    ELSE IF IsSpace(s[1]) /\ IsSpace(s[2]) THEN CollapseSpaces(Tail(s))
    ELSE <<s[1]>> \o CollapseSpaces(Tail(s))

NormalizeWhitespace(s) == CollapseSpaces(Strip(s))

\* ------------------------------------------------------------------ state
VARIABLES
    groqKey,        \* os.environ["GROQ_API_KEY"]
    orientation,    \* args.orientation
    video_server,   \* args.video_server
    pc,             \* position of the program
    events,         \* history: the calls main made and how each one ended
    outcome,        \* the message main ended with
    script,         \* main: script
    llmCalls,       \* chat-completion requests sent by the stage running or last returned
    audioFile,      \* state of args.audio_file on disk
    attempts,       \* generate_audio: the synthesis attempts made
    audio_success,  \* main: audio_success
    method,         \* generate_timed_captions: method
    methods,        \* generate_timed_captions: methods still to try
    tried,          \* generate_timed_captions: methods tried, with what they gave
    timed_captions, \* main: timed_captions
    attempt,        \* getVideoSearchQueriesTimed: attempt
    lastReply,      \* history: what call_OpenAI and the parser gave the last attempt
    search_terms,   \* main: search_terms
    vi,             \* generate_video_url: index i of the loop
    timed_video_urls, \* generate_video_url: timed_video_urls
    used_links,     \* generate_video_url: used_links
    searches,       \* history: the orientation of every Pexels search made
    background_video_urls, \* main: background_video_urls
    renderCall,     \* history: the call main made to get_output_media
    output_video,   \* main: output_video
    clip_i,         \* get_output_media: index i of the loop running
    visual_clips,   \* get_output_media: visual_clips
    renderLog       \* history: the steps get_output_media took and how each ended

vars == << groqKey, orientation, video_server, pc, events, outcome, script, llmCalls,
           audioFile, attempts, audio_success, method, methods, tried,
           timed_captions, attempt, lastReply, search_terms, vi, timed_video_urls,
           used_links, searches, background_video_urls, renderCall,
           output_video, clip_i, visual_clips, renderLog >>

inputVars == << groqKey, orientation, video_server >>
audioVars == << audioFile, attempts, audio_success >>
captionVars == << method, methods, tried, timed_captions >>
queryVars == << attempt, lastReply, search_terms >>
videoVars == << vi, timed_video_urls, used_links, searches, background_video_urls >>
rendererVars == << clip_i, visual_clips, renderLog >>
renderVars == << renderCall, output_video, rendererVars >>
laterVars == << queryVars, videoVars, renderVars >>

FileStates == {"missing", "empty", "ok"}

Call(stage) == [ev |-> "call", stage |-> stage, ok |-> TRUE]
Ret(stage, value) == [ev |-> "ret", stage |-> stage, ok |-> Truthy(value)]
Raise(stage) == [ev |-> "raise", stage |-> stage, ok |-> FALSE]

\* --------------------------------------------------- app.py, module import
\* app.py lines 4-9 import the utility modules; the module body of
\* video_search_query_generator tests GROQ_API_KEY and calls exit(1).
ImportModules ==
    /\ pc = "import"
    /\ IF KeyValid(groqKey)
       THEN pc' = "step1" /\ outcome' = outcome
       ELSE pc' = "exited" /\ outcome' = "exit(1)"
    /\ UNCHANGED << inputVars, events, script, llmCalls, audioVars, captionVars, laterVars >>

\* --------------------------------------------------------- generate_script
Scripts == { Str(<<"story">>), Str(<<" ">>) }
\* what the Groq client can do with the request
LlmReplies == { "raises", "json", "json_empty_script", "fixable_json",
                "fixable_empty_script", "regex_match", "no_match" }

\* generate_script lines 92-135: the value returned for a reply
ScriptFromReply(reply, text) ==
    CASE reply = "json"          -> text
      [] reply = "fixable_json"  -> text
      [] reply = "regex_match"   -> text
      [] OTHER                   -> None

\* generate_script: result and number of LLM requests
generate_script(key, groqInstalled, reply, text) ==
    IF ~KeyValid(key) THEN [result |-> None, calls |-> 0]
    ELSE IF ~groqInstalled THEN [result |-> None, calls |-> 0]
    ELSE [result |-> ScriptFromReply(reply, text), calls |-> 1]

\* main line 81
Step1CallScript ==
    /\ pc = "step1"
    /\ events' = Append(events, Call("generate_script"))
    /\ pc' = "in_generate_script"
    /\ UNCHANGED << inputVars, outcome, script, llmCalls, audioVars, captionVars, laterVars >>

RunGenerateScript ==
    /\ pc = "in_generate_script"
    /\ \E inst \in BOOLEAN, reply \in LlmReplies, text \in Scripts :
         LET r == generate_script(groqKey, inst, reply, text) IN
           /\ script' = r.result
           /\ llmCalls' = llmCalls + r.calls
           /\ events' = Append(events, Ret("generate_script", r.result))
    /\ pc' = "step2"
    /\ UNCHANGED << inputVars, outcome, audioVars, captionVars, laterVars >>

\* ------------------------------------------------------------------- main
\* mutant of MainStops: the test "is None" in place of "not"
MainStopsOnNone(value) == value.t = "None"

\* main lines 82, 93, 103: "if not <result>: ... return"
MainStops(value) == ~Truthy(value)

\* main's except Exception handler, lines 203-210
UnexpectedError == "An unexpected error occurred"

\* ---------------------------------------------------------- generate_audio
InvalidTextMessage == <<"Sorry, there was an issue with the story content.">>
EmptyTextMessage == <<"This is a StoryForge audio test message.">>
FallbackText == <<"StoryForge encountered an audio generation error. Please check your internet connection.">>
PrimaryVoice == "en-US-GuyNeural"
FallbackVoice == "en-US-AriaNeural"

\* generate_audio lines 17-31: the text handed to the primary synthesis
\* (the replace of quotes and line breaks acts on characters the model's
\* alphabet does not hold)
SanitizeText(text) ==
    LET given == IF ~Truthy(text) \/ text.t /= "str" THEN InvalidTextMessage ELSE text.v
        stripped == Strip(given)
        filled == IF Len(stripped) = 0 THEN EmptyTextMessage ELSE stripped
    IN NormalizeWhitespace(filled)

\* mutant of AfterPrimary: the fallback also runs when the file is missing or empty
AfterPrimaryRetriesBadFile(raised, file) ==
    IF raised \/ file /= "ok" THEN "fallback" ELSE "True"

\* generate_audio lines 37-73: what follows the primary attempt
AfterPrimary(raised, file) ==
    IF raised THEN "fallback"
    ELSE IF file = "ok" THEN "True" ELSE "False"

\* mutant of AfterFallback: the size of the file is not looked at
AfterFallbackIgnoresSize(raised, file) ==
    IF raised THEN "False"
    ELSE IF file /= "missing" THEN "True" ELSE "False"

\* generate_audio lines 75-95: what follows the fallback attempt
AfterFallback(raised, file) ==
    IF raised THEN "False"
    ELSE IF file = "ok" THEN "True" ELSE "False"

\* mutant of Step2CallAudio: the captions are asked for before the narration
Step2CallsCaptionsFirst ==
    /\ pc = "step2"
    /\ IF ~Truthy(script)
       THEN /\ outcome' = "Failed to generate script"
            /\ pc' = "done"
            /\ UNCHANGED events
       ELSE /\ events' = Append(events, Call("generate_timed_captions"))
            /\ pc' = "captions_check_file"
            /\ UNCHANGED outcome
    /\ UNCHANGED << inputVars, script, llmCalls, audioVars, captionVars, laterVars >>

\* main lines 82-92
Step2CallAudio ==
    /\ pc = "step2"
    /\ IF MainStops(script)
       THEN /\ outcome' = "Failed to generate script"
            /\ pc' = "done"
            /\ UNCHANGED << events, attempts, llmCalls >>
       ELSE /\ events' = Append(events, Call("generate_audio"))
            /\ attempts' = <<>>
            /\ llmCalls' = 0
            /\ pc' = "audio_primary"
            /\ UNCHANGED outcome
    /\ UNCHANGED << inputVars, script, audioFile, audio_success,
                    captionVars, laterVars >>

\* generate_audio returns (or lets an exception escape) to main line 92
AudioEnds(verdict) ==
    IF verdict = "raise"
    THEN /\ events' = Append(events, Raise("generate_audio"))
         /\ outcome' = UnexpectedError
         /\ pc' = "done"
         /\ UNCHANGED audio_success
    ELSE /\ audio_success' = Bool(verdict = "True")
         /\ events' = Append(events, Ret("generate_audio", Bool(verdict = "True")))
         /\ pc' = "step3"
         /\ UNCHANGED outcome

\* generate_audio lines 37-73: Communicate(...) and await communicate.save
AudioPrimary ==
    /\ pc = "audio_primary"
    /\ \E raised \in BOOLEAN, file \in FileStates :
         /\ attempts' = Append(attempts,
                [kind |-> "primary", voice |-> PrimaryVoice,
                 text |-> SanitizeText(script), raised |-> raised, file |-> file])
         /\ audioFile' = file
         /\ LET verdict == AfterPrimary(raised, file) IN
              IF verdict = "fallback"
              THEN pc' = "audio_fallback" /\ UNCHANGED << events, outcome, audio_success >>
              ELSE AudioEnds(verdict)
    /\ UNCHANGED << inputVars, script, llmCalls, captionVars, laterVars >>

\* generate_audio lines 75-95
AudioFallback ==
    /\ pc = "audio_fallback"
    /\ \E raised \in BOOLEAN, file \in FileStates :
         /\ attempts' = Append(attempts,
                [kind |-> "fallback", voice |-> FallbackVoice,
                 text |-> FallbackText, raised |-> raised, file |-> file])
         /\ audioFile' = file
         /\ LET verdict == AfterFallback(raised, file) IN
              IF verdict = "fallback"
              THEN pc' = "audio_fallback" /\ UNCHANGED << events, outcome, audio_success >>
              ELSE AudioEnds(verdict)
    /\ UNCHANGED << inputVars, script, llmCalls, captionVars, laterVars >>

\* -------------------------------------------------- generate_timed_captions
\* numbers as the transcription libraries hand them over
PyInt(n) == [k |-> "int", n |-> n]
PyFloat(n) == [k |-> "float", n |-> n]
NotANumber == [k |-> "NoneType", n |-> 0]
\* a Python tuple
Tuple(s) == [t |-> "tuple", v |-> s]
IsSequence(x) == x.t \in {"tuple", "list"}

\* float(x): the converted value, or "raises" (TypeError / ValueError)
ToFloat(x) == IF x.k \in {"int", "float"} THEN PyFloat(x.n) ELSE [k |-> "raises", n |-> 0]

\* the captions the try_* functions can build: ((start, end), text, color)
\* with the time stamps and the words the library gave
RawCaptions ==
    { Tuple(<< Tuple(<<PyFloat(0), PyFloat(1)>>), Str(<<"a">>), "white" >>),
      Tuple(<< Tuple(<<PyInt(1), PyInt(2)>>), Str(<<" ", "b", " ">>), "white" >>),
      Tuple(<< Tuple(<<PyFloat(1), PyFloat(2)>>), Str(<<" ">>), "white" >>),
      Tuple(<< Tuple(<<NotANumber, PyFloat(2)>>), Str(<<"c">>), "white" >>) }

RECURSIVE ListsUpTo(_, _)
ListsUpTo(S, n) ==
    IF n = 0 THEN { <<>> }
    ELSE LET shorter == ListsUpTo(S, n - 1) IN
         shorter \cup { Append(l, x) : l \in { m \in shorter : Len(m) = n - 1 }, x \in S }

RawCaptionLists == ListsUpTo(RawCaptions, MaxCaps)

\* what one try_* call gives generate_timed_captions: a list, or an exception
MethodResults == { [t |-> "raises"] } \cup { List(l) : l \in RawCaptionLists }

\* generate_timed_captions lines 39-44
AllMethods == << "faster-whisper", "wav2vec2", "vosk", "basic-whisper" >>

\* mutant of MethodOrder: the requested method is put in front and not
\* taken out of the rest
MethodOrderKeepsDuplicate(m) ==
    IF m /= "faster-whisper"
    THEN SelectSeq(AllMethods, LAMBDA x : x = m) \o AllMethods
    ELSE AllMethods

\* generate_timed_captions lines 46-48
MethodOrder(m) ==
    IF m /= "faster-whisper"
    THEN SelectSeq(AllMethods, LAMBDA x : x = m) \o SelectSeq(AllMethods, LAMBDA x : x /= m)
    ELSE AllMethods

\* mutant of ValidateCaption: the text is tested stripped and stored as given
ValidateCaptionKeepsText(caption) ==
    IF IsSequence(caption) /\ Len(caption.v) >= 2
    THEN LET time_info == caption.v[1]
             text == caption.v[2]
             color == IF Len(caption.v) > 2 THEN caption.v[3] ELSE "white"
         IN IF IsSequence(time_info) /\ Len(time_info.v) >= 2
            THEN LET start_time == ToFloat(time_info.v[1])
                     end_time == ToFloat(time_info.v[2])
                 IN IF start_time.k = "raises" \/ end_time.k = "raises" THEN <<>>
                    ELSE IF Len(Strip(text.v)) > 0
                    THEN << Tuple(<< Tuple(<<start_time, end_time>>), text, color >>) >>
                    ELSE <<>>
            ELSE <<>>
    ELSE <<>>

\* validate_caption_format lines 78-101: what one caption adds to validated
ValidateCaption(caption) ==
    IF IsSequence(caption) /\ Len(caption.v) >= 2
    THEN LET time_info == caption.v[1]
             text == caption.v[2]
             color == IF Len(caption.v) > 2 THEN caption.v[3] ELSE "white"
         IN IF IsSequence(time_info) /\ Len(time_info.v) >= 2
            THEN LET start_time == ToFloat(time_info.v[1])
                     end_time == ToFloat(time_info.v[2])
                     stripped == Strip(text.v)
                 IN IF start_time.k = "raises" \/ end_time.k = "raises" THEN <<>>
                    ELSE IF Len(stripped) > 0
                    THEN << Tuple(<< Tuple(<<start_time, end_time>>), Str(stripped), color >>) >>
                    ELSE <<>>
            ELSE <<>>
    ELSE <<>>

\* validate_caption_format lines 75-104
RECURSIVE validate_caption_format(_)
validate_caption_format(captions) ==
    IF captions = <<>> THEN <<>>
    ELSE validate_caption_format(SubSeq(captions, 1, Len(captions) - 1))
         \o ValidateCaption(captions[Len(captions)])

\* main lines 93-102
Step3CallCaptions ==
    /\ pc = "step3"
    /\ IF MainStops(audio_success)
       THEN /\ outcome' = "Failed to generate audio narration"
            /\ pc' = "done"
            /\ UNCHANGED << events, method >>
       ELSE /\ events' = Append(events, Call("generate_timed_captions"))
            /\ method' = "faster-whisper"
            /\ pc' = "captions_check_file"
            /\ UNCHANGED outcome
    /\ attempts' = <<>>
    /\ UNCHANGED << inputVars, script, llmCalls, audioFile, audio_success,
                    methods, tried, timed_captions, laterVars >>

\* generate_timed_captions returns to main line 102
CaptionsReturn(value) ==
    /\ timed_captions' = value
    /\ events' = Append(events, Ret("generate_timed_captions", value))
    /\ pc' = "step4"

\* generate_timed_captions lines 24-48
CaptionsCheckFile ==
    /\ pc = "captions_check_file"
    /\ IF audioFile \in {"missing", "empty"}
       THEN CaptionsReturn(List(<<>>)) /\ UNCHANGED methods
       ELSE /\ methods' = MethodOrder(method)
            /\ pc' = "captions_try"
            /\ UNCHANGED << events, timed_captions >>
    /\ UNCHANGED << inputVars, outcome, script, llmCalls, audioVars, method,
                    tried, laterVars >>

\* generate_timed_captions lines 55-68: what follows one method's result
AfterMethod(result) ==
    IF result.t = "raises" THEN "next"
    ELSE IF Truthy(result) THEN "return" ELSE "next"

\* generate_timed_captions lines 50-71: one turn of the loop over methods
CaptionsTry ==
    /\ pc = "captions_try"
    /\ IF methods = <<>>
       THEN CaptionsReturn(List(<<>>)) /\ UNCHANGED << methods, tried >>
       ELSE \E result \in MethodResults :
              /\ tried' = Append(tried, [name |-> Head(methods), result |-> result])
              /\ IF AfterMethod(result) = "return"
                 THEN /\ CaptionsReturn(List(validate_caption_format(result.v)))
                      /\ UNCHANGED methods
                 ELSE /\ methods' = Tail(methods)
                      /\ UNCHANGED << pc, events, timed_captions >>
    /\ UNCHANGED << inputVars, outcome, script, llmCalls, audioVars, method, laterVars >>

\* ----------------------------------------------- getVideoSearchQueriesTimed
\* the segments an LLM answer can parse to (JSON values)
Segments ==
    { List(<< List(<<PyInt(0), PyInt(1)>>), List(<< Str(<<"c">>) >>) >>),
      List(<< List(<<PyInt(2), PyInt(5)>>), List(<< Str(<<" ">>), Str(<<"d">>) >>) >>),
      List(<< List(<<PyInt(1), PyInt(2)>>), List(<< >>) >>),
      List(<< List(<<NotANumber, NotANumber>>), List(<< Str(<<"c">>) >>) >>),
      Str(<<"segment">>) }

SegmentLists == ListsUpTo(Segments, MaxSegs)

\* call_OpenAI followed by advanced_json_parse: the call failed (None), the
\* answer was blank, no parsing method worked, the answer parsed to something
\* that is no list, or it parsed to a list
QueryReplies ==
    { [t |-> "call_failed"], [t |-> "blank"], [t |-> "unparsable"], [t |-> "dict"] }
    \cup { List(l) : l \in SegmentLists }

\* getVideoSearchQueriesTimed lines 314-326
CaptionsEndTime(captions) ==
    LET last_caption == captions[Len(captions)] IN
    IF IsSequence(last_caption) /\ Len(last_caption.v) >= 1
       /\ IsSequence(last_caption.v[1]) /\ Len(last_caption.v[1].v) >= 2
       /\ ToFloat(last_caption.v[1].v[2]).k /= "raises"
    THEN ToFloat(last_caption.v[1].v[2]).n
    ELSE 60

\* getVideoSearchQueriesTimed lines 372-376
ValidSegment(segment) ==
    /\ segment.t = "list" /\ Len(segment.v) >= 2
    /\ segment.v[1].t = "list" /\ Len(segment.v[1].v) >= 2
    /\ segment.v[2].t = "list" /\ Len(segment.v[2].v) > 0

CountValid(parsed) == Cardinality({ i \in 1..Len(parsed) : ValidSegment(parsed[i]) })

Abs(x) == IF x < 0 THEN -x ELSE x

\* getVideoSearchQueriesTimed lines 384-408: TRUE when the time-coverage
\* block returns parsed_result
CoverageAccepts(parsed, captions, valid_segments) ==
    LET last_segment == parsed[Len(parsed)] IN
    IF last_segment.t = "list" /\ Len(last_segment.v) >= 2
       /\ last_segment.v[1].t = "list" /\ Len(last_segment.v[1].v) >= 2
    THEN LET actual_end == ToFloat(last_segment.v[1].v[2]) IN
         IF actual_end.k = "raises" THEN valid_segments > 0
         ELSE \/ Abs(actual_end.n - CaptionsEndTime(captions)) <= 2
              \/ 5 * valid_segments >= 4 * Len(captions)
    ELSE FALSE

\* mutant of QueryAttempt: the last attempt returns its parsed list whether
\* or not it holds a valid segment
QueryAttemptKeepsInvalidLast(a, reply, captions) ==
    IF reply.t \in {"call_failed", "blank"} THEN [do |-> "continue", value |-> None]
    ELSE IF reply.t = "unparsable"
    THEN IF a < max_retries - 1 THEN [do |-> "continue", value |-> None]
         ELSE [do |-> "return", value |-> None]
    ELSE IF reply.t /= "list" THEN [do |-> "continue", value |-> None]
    ELSE IF Len(reply.v) = 0 THEN [do |-> "continue", value |-> None]
    ELSE LET valid_segments == CountValid(reply.v) IN
         IF valid_segments > 0 /\ CoverageAccepts(reply.v, captions, valid_segments)
         THEN [do |-> "return", value |-> reply]
         ELSE IF a < max_retries - 1 THEN [do |-> "continue", value |-> None]
         ELSE [do |-> "return", value |-> reply]

\* getVideoSearchQueriesTimed lines 333-424: one turn of the retry loop;
\* "return" with the value returned, or "continue"
QueryAttempt(a, reply, captions) ==
    IF reply.t \in {"call_failed", "blank"} THEN [do |-> "continue", value |-> None]
    ELSE IF reply.t = "unparsable"
    THEN IF a < max_retries - 1 THEN [do |-> "continue", value |-> None]
         ELSE [do |-> "return", value |-> None]
    ELSE IF reply.t /= "list" THEN [do |-> "continue", value |-> None]
    ELSE IF Len(reply.v) = 0 THEN [do |-> "continue", value |-> None]
    ELSE LET valid_segments == CountValid(reply.v) IN
         IF valid_segments > 0 /\ CoverageAccepts(reply.v, captions, valid_segments)
         THEN [do |-> "return", value |-> reply]
         ELSE IF a < max_retries - 1 THEN [do |-> "continue", value |-> None]
         ELSE IF valid_segments > 0 THEN [do |-> "return", value |-> reply]
         ELSE [do |-> "continue", value |-> None]

\* main lines 103-128
Step4CallQueries ==
    /\ pc = "step4"
    /\ IF MainStops(timed_captions)
       THEN /\ outcome' = "Failed to generate timed captions"
            /\ pc' = "done"
            /\ UNCHANGED events
       ELSE /\ events' = Append(events, Call("getVideoSearchQueriesTimed"))
            /\ pc' = "queries_enter"
            /\ UNCHANGED outcome
    /\ tried' = <<>>
    /\ methods' = <<>>
    /\ UNCHANGED << inputVars, script, llmCalls, audioVars, method,
                    timed_captions, laterVars >>

\* getVideoSearchQueriesTimed returns to main line 128
QueriesReturn(value) ==
    /\ search_terms' = value
    /\ events' = Append(events, Ret("getVideoSearchQueriesTimed", value))
    /\ pc' = "step5"

\* getVideoSearchQueriesTimed lines 307-330
QueriesEnter ==
    /\ pc = "queries_enter"
    /\ IF ~Truthy(timed_captions)
       THEN QueriesReturn(None) /\ UNCHANGED attempt
       ELSE /\ attempt' = 0
            /\ pc' = "queries_attempt"
            /\ UNCHANGED << events, search_terms >>
    /\ lastReply' = None
    /\ UNCHANGED << inputVars, outcome, script, llmCalls, audioVars, captionVars,
                    videoVars, renderVars >>

\* getVideoSearchQueriesTimed lines 332-427: one attempt, and the end of the
\* loop when it was the last one
QueriesAttempt ==
    /\ pc = "queries_attempt"
    /\ \E reply \in QueryReplies :
         LET r == QueryAttempt(attempt, reply, timed_captions.v) IN
           /\ llmCalls' = llmCalls + 1
           /\ lastReply' = reply
           /\ IF r.do = "return" THEN QueriesReturn(r.value) /\ UNCHANGED attempt
              ELSE IF attempt + 1 < max_retries
              THEN attempt' = attempt + 1 /\ UNCHANGED << pc, events, search_terms >>
              ELSE QueriesReturn(None) /\ UNCHANGED attempt
    /\ UNCHANGED << inputVars, outcome, script, audioVars, captionVars,
                    videoVars, renderVars >>

\* ------------------------------------------------------- generate_video_url
\* links Pexels can offer (without the ".hd" suffix)
Urls == { "u1", "u2" }
\* getBestVideo for one query: no suitable video, a link, or an exception
\* that getBestVideo does not catch
SearchOutcomes == { "none", "raises" } \cup Urls

\* main line 154 passes no orientation, so generate_video_url (line 174)
\* runs with its default
LookupOrientation(args_orientation) == "portrait"

Placeholder == List(<< List(<<PyInt(-1), PyInt(-1)>>), None >>)

\* generate_video_url lines 263-284: the loop over the search terms of one
\* segment, from term j on.  oracle[j] is what Pexels holds for term j.
RECURSIVE TryTerms(_, _, _, _)
TryTerms(terms, j, used, oracle) ==
    IF j > Len(terms) THEN [url |-> None, raised |-> FALSE, searched |-> FALSE]
    ELSE LET query == terms[j] IN
         IF ~(query.t = "str" /\ Len(query.v) > 0) \/ Len(Strip(query.v)) = 0
         THEN TryTerms(terms, j + 1, used, oracle)
         ELSE IF oracle[j] = "raises"
         THEN [url |-> None, raised |-> TRUE, searched |-> TRUE]
         ELSE IF oracle[j] \in Urls \ used
         THEN [url |-> Str(<<oracle[j]>>), raised |-> FALSE, searched |-> TRUE]
         ELSE [ TryTerms(terms, j + 1, used, oracle) EXCEPT !.searched = TRUE ]

\* generate_video_url lines 218-309: the entry one search item adds, the
\* link it uses up, and whether a search was made
ProcessItem(search_data, used, oracle) ==
    LET skip(entry) == [entry |-> entry, link |-> None, searched |-> FALSE] IN
    IF search_data.t /= "list" THEN skip(Placeholder)
    ELSE IF Len(search_data.v) /= 2 THEN skip(Placeholder)
    ELSE LET time_segment == search_data.v[1]
             search_terms_ == search_data.v[2]
         IN IF time_segment.t /= "list" \/ Len(time_segment.v) /= 2 THEN skip(Placeholder)
            ELSE LET t1 == ToFloat(time_segment.v[1])
                     t2 == ToFloat(time_segment.v[2])
                 IN IF t1.k = "raises" \/ t2.k = "raises" THEN skip(Placeholder)
                    ELSE IF search_terms_.t /= "list" \/ Len(search_terms_.v) = 0
                    THEN skip(List(<< List(<<t1, t2>>), None >>))
                    ELSE LET r == TryTerms(search_terms_.v, 1, used, oracle) IN
                         IF r.raised
                         THEN [entry |-> List(<< time_segment, None >>),
                               link |-> None, searched |-> TRUE]
                         ELSE [entry |-> List(<< List(<<t1, t2>>), r.url >>),
                               link |-> r.url, searched |-> r.searched]

\* the number of search terms of an item (none when it has no list of them)
NumTerms(search_data) ==
    IF search_data.t = "list" /\ Len(search_data.v) = 2 /\ search_data.v[2].t = "list"
    THEN Len(search_data.v[2].v) ELSE 0

\* main lines 129-154
Step5CallVideoUrl ==
    /\ pc = "step5"
    /\ IF ~Truthy(search_terms)
       THEN /\ background_video_urls' = None
            /\ pc' = "step6"
            /\ UNCHANGED events
       ELSE /\ events' = Append(events, Call("generate_video_url"))
            /\ pc' = "video_enter"
            /\ UNCHANGED background_video_urls
    /\ attempt' = 0
    /\ lastReply' = None
    /\ llmCalls' = 0
    /\ UNCHANGED << inputVars, outcome, script, audioVars, captionVars,
                    search_terms, vi, timed_video_urls, used_links, searches, renderVars >>

\* generate_video_url returns to main line 154
VideoReturn(value) ==
    /\ background_video_urls' = value
    /\ events' = Append(events, Ret("generate_video_url", value))
    /\ pc' = "step5_merge"

\* mutant of RejectsInput: without the isinstance test of lines 201-203
RejectsInputUnlessSized(timed_video_searches) ==
    timed_video_searches.t = "None" \/ ~Truthy(timed_video_searches)

\* generate_video_url lines 188-203: the inputs answered with []
RejectsInput(timed_video_searches) ==
    \/ timed_video_searches.t = "None"
    \/ ~Truthy(timed_video_searches)
    \/ timed_video_searches.t /= "list"

\* globals() of background_video_generator: the names its module body binds
ModuleGlobals ==
    { "os", "requests", "log_response", "LOG_TYPE_PEXEL", "PEXELS_API_KEY",
      "search_videos", "getBestVideo", "generate_video_url",
      "validate_search_input", "process_background_video_fixed",
      "debug_video_search", "safe_unpack" }

\* generate_video_url lines 188-211 and 311-327
VideoEnter ==
    /\ pc = "video_enter"
    /\ IF RejectsInput(search_terms)
       THEN VideoReturn(List(<<>>)) /\ UNCHANGED << vi, timed_video_urls, used_links >>
       ELSE IF video_server = "pexel"
       THEN /\ vi' = 1
            /\ timed_video_urls' = <<>>
            /\ used_links' = {}
            /\ pc' = "video_item"
            /\ UNCHANGED << events, background_video_urls >>
       ELSE IF video_server = "stable_diffusion"
                /\ "get_images_for_video" \in ModuleGlobals
       THEN \* lines 316 and 320-324: whatever the image function gives, or []
            \* when it raises
            /\ \E images \in { List(<<>>), List(<< Placeholder >>) } : VideoReturn(images)
            /\ UNCHANGED << vi, timed_video_urls, used_links >>
       ELSE VideoReturn(List(<<>>)) /\ UNCHANGED << vi, timed_video_urls, used_links >>
    /\ UNCHANGED << inputVars, outcome, script, llmCalls, audioVars, captionVars,
                    queryVars, searches, renderVars >>

\* mutant of VideoItem: an item that gets the placeholder adds no entry
VideoItemSkipsMalformed ==
    /\ pc = "video_item"
    /\ IF vi > Len(search_terms.v)
       THEN /\ VideoReturn(List(timed_video_urls))
            /\ UNCHANGED << vi, timed_video_urls, used_links, searches >>
       ELSE \E oracle \in [1..NumTerms(search_terms.v[vi]) -> SearchOutcomes] :
              LET r == ProcessItem(search_terms.v[vi], used_links, oracle) IN
                /\ timed_video_urls' = IF r.entry = Placeholder THEN timed_video_urls
                                       ELSE Append(timed_video_urls, r.entry)
                /\ used_links' = IF r.link.t = "None" THEN used_links
                                 ELSE used_links \cup { r.link.v[1] }
                /\ searches' = IF r.searched
                               THEN searches \cup { LookupOrientation(orientation) }
                               ELSE searches
                /\ vi' = vi + 1
                /\ UNCHANGED << pc, events, background_video_urls >>
    /\ UNCHANGED << inputVars, outcome, script, llmCalls, audioVars, captionVars,
                    queryVars, renderVars >>

\* generate_video_url lines 213-309 (one item) and 329-349 (after the loop)
VideoItem ==
    /\ pc = "video_item"
    /\ IF vi > Len(search_terms.v)
       THEN /\ VideoReturn(List(timed_video_urls))
            /\ UNCHANGED << vi, timed_video_urls, used_links, searches >>
       ELSE \E oracle \in [1..NumTerms(search_terms.v[vi]) -> SearchOutcomes] :
              LET r == ProcessItem(search_terms.v[vi], used_links, oracle) IN
                /\ timed_video_urls' = Append(timed_video_urls, r.entry)
                /\ used_links' = IF r.link.t = "None" THEN used_links
                                 ELSE used_links \cup { r.link.v[1] }
                /\ searches' = IF r.searched
                               THEN searches \cup { LookupOrientation(orientation) }
                               ELSE searches
                /\ vi' = vi + 1
                /\ UNCHANGED << pc, events, background_video_urls >>
    /\ UNCHANGED << inputVars, outcome, script, llmCalls, audioVars, captionVars,
                    queryVars, renderVars >>

\* ----------------------------------------------------- merge_empty_intervals
\* safe_unpack(data, 2, default_values) of video_search_query_generator,
\* lines 75-104, for the two-element default lists its callers pass
SafeUnpack2(data, default_values) ==
    IF data.t = "None" THEN default_values
    ELSE IF IsSequence(data)
    THEN IF Len(data.v) >= 2 THEN SubSeq(data.v, 1, 2)
         ELSE data.v \o SubSeq(default_values, Len(data.v) + 1, 2)
    ELSE default_values

MergeDefaults == << List(<<PyInt(-1), PyInt(-1)>>), None >>

\* merge_empty_intervals lines 516-524: the first index from j on whose
\* segment is no list or holds a URL
RECURSIVE EndOfEmptyRun(_, _)
EndOfEmptyRun(segments, j) ==
    IF j > Len(segments) THEN j
    ELSE IF ~IsSequence(segments[j]) THEN j
    ELSE IF SafeUnpack2(segments[j], MergeDefaults)[2].t /= "None" THEN j
    ELSE EndOfEmptyRun(segments, j + 1)

\* merge_empty_intervals lines 503-561, from index i on (1-based).  Time
\* stamps are whole seconds here, so a gap of at most 0.1 is a gap of 0.
RECURSIVE MergeFrom(_, _, _)
MergeFrom(segments, i, merged) ==
    IF i > Len(segments) THEN merged
    ELSE IF ~IsSequence(segments[i]) THEN MergeFrom(segments, i + 1, merged)
    ELSE LET interval == SafeUnpack2(segments[i], MergeDefaults)[1]
             url == SafeUnpack2(segments[i], MergeDefaults)[2]
         IN IF url.t /= "None"
            THEN MergeFrom(segments, i + 1, Append(merged, List(<<interval, url>>)))
            ELSE LET j == EndOfEmptyRun(segments, i + 1) IN
                 IF i > 1 /\ Len(merged) > 0
                 THEN LET prev_interval == merged[Len(merged)].v[1]
                          prev_url == merged[Len(merged)].v[2]
                      IN IF /\ prev_url.t /= "None"
                            /\ Len(prev_interval.v) >= 2
                            /\ Len(interval.v) >= 2
                            /\ Abs(prev_interval.v[2].n - interval.v[1].n) = 0
                         THEN LET last_interval == SafeUnpack2(segments[j - 1], MergeDefaults)[1]
                                  last_end_time == IF Len(last_interval.v) >= 2
                                                   THEN last_interval.v[2]
                                                   ELSE interval.v[2]
                              IN MergeFrom(segments, j,
                                   [merged EXCEPT ![Len(merged)] =
                                      List(<< List(<<prev_interval.v[1], last_end_time>>), prev_url >>)])
                         ELSE MergeFrom(segments, j, Append(merged, List(<<interval, prev_url>>)))
                 ELSE MergeFrom(segments, j, Append(merged, List(<<interval, None>>)))

\* merge_empty_intervals lines 487-564
merge_empty_intervals(segments) ==
    IF segments.t = "None" THEN <<>>
    ELSE IF segments.t /= "list" THEN <<>>
    ELSE IF Len(segments.v) = 0 THEN <<>>
    ELSE MergeFrom(segments.v, 1, <<>>)

\* main lines 155-172
Step5Merge ==
    /\ pc = "step5_merge"
    /\ background_video_urls' =
         IF ~Truthy(background_video_urls) THEN background_video_urls
         ELSE List(merge_empty_intervals(background_video_urls))
    /\ pc' = "step6"
    /\ UNCHANGED << inputVars, events, outcome, script, llmCalls, audioVars,
                    captionVars, queryVars, vi, timed_video_urls, used_links,
                    searches, renderVars >>

\* ---------------------------------------------------------- get_output_media
\* get_output_media line 188: its parameters, and those without a default
RendererParams ==
    { "audio_file_path", "timed_captions", "background_video_data",
      "video_server", "orientation" }
RendererRequired == RendererParams \ { "orientation" }

\* main lines 180-186: the keywords of the call
MainRenderKeywords ==
    { "audio_file", "timed_captions", "background_video_data",
      "video_server", "orientation" }

\* Python binds a call made with keywords only, or raises TypeError
CallBinds(keywords, params, required) ==
    keywords \subseteq params /\ required \subseteq keywords

\* get_output_media lines 201-215: TARGET_WIDTH, TARGET_HEIGHT
TargetResolution(o) == IF o = "portrait" THEN <<1080, 1920>> ELSE <<1920, 1080>>

OUTPUT_FILE_NAME == Str(<<"rendered_video.mp4">>)

\* main lines 176-199, with the except handler of lines 203-210
Step6Render ==
    /\ pc = "step6"
    /\ IF Truthy(background_video_urls)
       THEN IF CallBinds(MainRenderKeywords, RendererParams, RendererRequired)
            THEN \E result \in { OUTPUT_FILE_NAME, None } :
                   /\ renderCall' = [t |-> "bound", resolution |-> TargetResolution(orientation)]
                   /\ output_video' = result
                   /\ UNCHANGED rendererVars
                   /\ events' = events \o << Call("get_output_media"),
                                             Ret("get_output_media", result) >>
                   /\ outcome' = IF Truthy(result) THEN "SUCCESS"
                                 ELSE "Failed to render the final video"
            ELSE /\ renderCall' = [t |-> "TypeError", resolution |-> <<0, 0>>]
                 /\ events' = events \o << Call("get_output_media"),
                                           Raise("get_output_media") >>
                 /\ outcome' = UnexpectedError
                 /\ UNCHANGED << output_video, rendererVars >>
       ELSE /\ outcome' = "Creating audio-only version"
            /\ UNCHANGED << events, renderVars >>
    /\ pc' = "done"
    /\ UNCHANGED << inputVars, script, llmCalls, audioVars, captionVars,
                    queryVars, videoVars >>

\* ------------------------------------------------ get_output_media, body
\* safe_unpack_video_data lines 152-186 for a list, a tuple or a value of
\* another type that is no dict: (time_info, video_url), or None
safe_unpack_video_data(video_data) ==
    IF IsSequence(video_data)
    THEN IF Len(video_data.v) >= 2
         THEN IF ~Truthy(video_data.v[1]) \/ ~Truthy(video_data.v[2]) THEN None
              ELSE Tuple(<< video_data.v[1], video_data.v[2] >>)
         ELSE None
    ELSE None

\* safe_unpack_time_info lines 109-143: (start_time, end_time), or None
safe_unpack_time_info(time_info) ==
    IF IsSequence(time_info)
    THEN IF Len(time_info.v) >= 2
         THEN LET start_time == ToFloat(time_info.v[1])
                  end_time == ToFloat(time_info.v[2])
              IN IF start_time.k = "raises" \/ end_time.k = "raises" THEN None
                 ELSE IF start_time.n >= end_time.n THEN None
                 ELSE Tuple(<< start_time, end_time >>)
         ELSE None
    ELSE None

\* safe_unpack_caption_data lines 39-100 for a list, a tuple or a value of
\* another type that is no dict: (time_info, text, color), or None
RECURSIVE safe_unpack_caption_data(_)
safe_unpack_caption_data(caption_data) ==
    IF IsSequence(caption_data)
    THEN LET length == Len(caption_data.v) IN
         IF length = 0 THEN None
         ELSE IF length = 1
         THEN LET element == caption_data.v[1] IN
              IF IsSequence(element) /\ Len(element.v) >= 2
              THEN safe_unpack_caption_data(element)
              ELSE None
         ELSE LET time_info == caption_data.v[1]
                  text == caption_data.v[2]
                  color == IF length >= 3 THEN caption_data.v[3] ELSE "white"
              IN IF ~Truthy(time_info) THEN None
                 ELSE IF ~Truthy(text) THEN None
                 ELSE Tuple(<< time_info, text, IF color = "" THEN "white" ELSE color >>)
    ELSE None

\* what the download and moviepy do with one video segment: an exception,
\* a missing or empty file, or a clip
SegmentOutcomes == { "raises", "download_empty", "clip" }
\* what TextClip does with one caption
TextOutcomes == { "raises", "clip" }

NoClip(why) == [outcome |-> why, clip |-> <<>>]

\* get_output_media lines 231-335: one turn of the loop over the segments
ProcessSegment(video_data, env) ==
    LET unpacked_data == safe_unpack_video_data(video_data) IN
    IF ~Truthy(unpacked_data) THEN NoClip("skipped")
    ELSE LET time_result == safe_unpack_time_info(unpacked_data.v[1]) IN
         IF ~Truthy(time_result) THEN NoClip("skipped")
         ELSE IF env = "raises" THEN NoClip("raised")
         ELSE IF env = "download_empty" THEN NoClip("no_file")
         ELSE [outcome |-> "clip",
               clip |-> << [kind |-> "video", start |-> time_result.v[1].n,
                            duration |-> time_result.v[2].n - time_result.v[1].n] >>]

\* get_output_media lines 341-390: one turn of the loop over the captions
ProcessCaption(caption_data, env) ==
    LET unpacked_data == safe_unpack_caption_data(caption_data) IN
    IF ~Truthy(unpacked_data) THEN NoClip("skipped")
    ELSE LET time_result == safe_unpack_time_info(unpacked_data.v[1]) IN
         IF ~Truthy(time_result) THEN NoClip("skipped")
         ELSE IF env = "raises" THEN NoClip("raised")
         ELSE [outcome |-> "clip",
               clip |-> << [kind |-> "text", start |-> time_result.v[1].n,
                            duration |-> time_result.v[2].n - time_result.v[1].n] >>]

Logged(step, index, result) == [step |-> step, index |-> index, outcome |-> result]

\* mutant of AfterWrite: the file name is returned whatever write_videofile did
AfterWriteIgnoresError(raised) == OUTPUT_FILE_NAME

\* get_output_media lines 431-459: the value returned after write_videofile
AfterWrite(raised) == IF raised THEN None ELSE OUTPUT_FILE_NAME

\* get_output_media returns to its caller
RenderReturn(value) ==
    /\ output_video' = value
    /\ events' = Append(events, Ret("get_output_media", value))
    /\ pc' = "rendered"

\* get_output_media lines 199-227
RenderEnter ==
    /\ pc = "render_enter"
    /\ renderCall' = [t |-> "bound", resolution |-> TargetResolution(orientation)]
    /\ clip_i' = 1
    /\ visual_clips' = <<>>
    /\ renderLog' = <<>>
    /\ pc' = "render_videos"
    /\ UNCHANGED << inputVars, events, outcome, script, llmCalls, audioVars,
                    captionVars, queryVars, videoVars, output_video >>

\* get_output_media lines 230-337
RenderVideo ==
    /\ pc = "render_videos"
    /\ IF clip_i > Len(background_video_urls.v)
       THEN /\ pc' = "render_captions"
            /\ clip_i' = 1
            /\ UNCHANGED << visual_clips, renderLog >>
       ELSE \E env \in SegmentOutcomes :
              LET r == ProcessSegment(background_video_urls.v[clip_i], env) IN
                /\ visual_clips' = visual_clips \o r.clip
                /\ renderLog' = Append(renderLog, Logged("video", clip_i, r.outcome))
                /\ clip_i' = clip_i + 1
                /\ UNCHANGED pc
    /\ UNCHANGED << inputVars, events, outcome, script, llmCalls, audioVars,
                    captionVars, queryVars, videoVars, renderCall, output_video >>

\* get_output_media lines 340-398
RenderCaption ==
    /\ pc = "render_captions"
    /\ IF clip_i > Len(timed_captions.v)
       THEN /\ IF ~(Len(visual_clips) > 0)
               THEN RenderReturn(None)
               ELSE pc' = "render_audio" /\ UNCHANGED << events, output_video >>
            /\ UNCHANGED << clip_i, visual_clips, renderLog >>
       ELSE \E env \in TextOutcomes :
              LET r == ProcessCaption(timed_captions.v[clip_i], env) IN
                /\ visual_clips' = visual_clips \o r.clip
                /\ renderLog' = Append(renderLog, Logged("caption", clip_i, r.outcome))
                /\ clip_i' = clip_i + 1
                /\ UNCHANGED << pc, events, output_video >>
    /\ UNCHANGED << inputVars, outcome, script, llmCalls, audioVars,
                    captionVars, queryVars, videoVars, renderCall >>

\* get_output_media lines 400-411: AudioFileClip and audio_normalize
RenderAudio ==
    /\ pc = "render_audio"
    /\ \E raised \in BOOLEAN :
         /\ audioFile /= "ok" => raised
         /\ renderLog' = Append(renderLog,
                Logged("audio", 0, IF raised THEN "raised" ELSE "ok"))
         /\ IF raised THEN RenderReturn(None)
            ELSE pc' = "render_composite" /\ UNCHANGED << events, output_video >>
    /\ UNCHANGED << inputVars, outcome, script, llmCalls, audioVars, captionVars,
                    queryVars, videoVars, renderCall, clip_i, visual_clips >>

\* get_output_media lines 413-427: CompositeVideoClip and set_audio
RenderComposite ==
    /\ pc = "render_composite"
    /\ \E raised \in BOOLEAN :
         /\ renderLog' = Append(renderLog,
                Logged("composite", 0, IF raised THEN "raised" ELSE "ok"))
         /\ IF raised THEN RenderReturn(None)
            ELSE pc' = "render_write" /\ UNCHANGED << events, output_video >>
    /\ UNCHANGED << inputVars, outcome, script, llmCalls, audioVars, captionVars,
                    queryVars, videoVars, renderCall, clip_i, visual_clips >>

\* get_output_media lines 429-459: write_videofile, the clean-up of the
\* temporary files (each unlink in its own try) and the return
RenderWrite ==
    /\ pc = "render_write"
    /\ \E raised \in BOOLEAN :
         /\ renderLog' = Append(renderLog,
                Logged("write", 0, IF raised THEN "raised" ELSE "ok"))
         /\ RenderReturn(AfterWrite(raised))
    /\ UNCHANGED << inputVars, outcome, script, llmCalls, audioVars, captionVars,
                    queryVars, videoVars, renderCall, clip_i, visual_clips >>

\* -------------------------------------------------------------- the program
Init ==
    /\ groqKey \in GroqKeys
    /\ orientation \in Orientations
    /\ video_server = "pexel"
    /\ pc = "import"
    /\ events = <<>>
    /\ outcome = ""
    /\ script = None
    /\ llmCalls = 0
    /\ audioFile \in FileStates
    /\ attempts = <<>>
    /\ audio_success = Bool(FALSE)
    /\ method = "faster-whisper"
    /\ methods = <<>>
    /\ tried = <<>>
    /\ timed_captions = List(<<>>)
    /\ attempt = 0
    /\ lastReply = None
    /\ search_terms = None
    /\ vi = 1
    /\ timed_video_urls = <<>>
    /\ used_links = {}
    /\ searches = {}
    /\ background_video_urls = None
    /\ renderCall = None
    /\ output_video = None
    /\ clip_i = 1
    /\ visual_clips = <<>>
    /\ renderLog = <<>>

Next ==
    \/ ImportModules
    \/ Step1CallScript
    \/ RunGenerateScript
    \/ Step2CallAudio
    \/ AudioPrimary
    \/ AudioFallback
    \/ Step3CallCaptions
    \/ CaptionsCheckFile
    \/ CaptionsTry
    \/ Step4CallQueries
    \/ QueriesEnter
    \/ QueriesAttempt
    \/ Step5CallVideoUrl
    \/ VideoEnter
    \/ VideoItem
    \/ Step5Merge
    \/ Step6Render

Spec == Init /\ [][Next]_vars

\* ------------------------------- generate_timed_captions on its own inputs
\* the values a caller can pass as method
RequestedMethods == { "faster-whisper", "wav2vec2", "vosk", "basic-whisper", "whisperx" }

InitCaptions ==
    /\ groqKey = MinKeyLen + 1
    /\ orientation = "portrait"
    /\ video_server = "pexel"
    /\ pc = "captions_check_file"
    /\ events = << Call("generate_timed_captions") >>
    /\ outcome = ""
    /\ script = None
    /\ llmCalls = 0
    /\ audioFile \in FileStates
    /\ attempts = <<>>
    /\ audio_success = Bool(FALSE)
    /\ method \in RequestedMethods
    /\ methods = <<>>
    /\ tried = <<>>
    /\ timed_captions = List(<<>>)
    /\ attempt = 0
    /\ lastReply = None
    /\ search_terms = None
    /\ vi = 1
    /\ timed_video_urls = <<>>
    /\ used_links = {}
    /\ searches = {}
    /\ background_video_urls = None
    /\ renderCall = None
    /\ output_video = None
    /\ clip_i = 1
    /\ visual_clips = <<>>
    /\ renderLog = <<>>

NextCaptions ==
    \/ CaptionsCheckFile
    \/ CaptionsTry

SpecCaptions == InitCaptions /\ [][NextCaptions]_vars

\* ---------------------------- getVideoSearchQueriesTimed on its own inputs
\* the values a caller can pass as captions_timed: None, or a list that
\* generate_timed_captions can return (the empty one among them)
QueryCaptionInputs ==
    { None } \cup { List(validate_caption_format(l)) : l \in RawCaptionLists }

InitQueries ==
    /\ groqKey = MinKeyLen + 1
    /\ orientation = "portrait"
    /\ video_server = "pexel"
    /\ pc = "queries_enter"
    /\ events = << Call("getVideoSearchQueriesTimed") >>
    /\ outcome = ""
    /\ script = Str(<<"story">>)
    /\ llmCalls = 0
    /\ audioFile = "ok"
    /\ attempts = <<>>
    /\ audio_success = Bool(TRUE)
    /\ method = "faster-whisper"
    /\ methods = <<>>
    /\ tried = <<>>
    /\ timed_captions \in QueryCaptionInputs
    /\ attempt = 0
    /\ lastReply = None
    /\ search_terms = None
    /\ vi = 1
    /\ timed_video_urls = <<>>
    /\ used_links = {}
    /\ searches = {}
    /\ background_video_urls = None
    /\ renderCall = None
    /\ output_video = None
    /\ clip_i = 1
    /\ visual_clips = <<>>
    /\ renderLog = <<>>

NextQueries ==
    \/ QueriesEnter
    \/ QueriesAttempt

\* the function runs on one thread and every statement of it completes, so
\* a step that can be taken is taken
SpecQueries == InitQueries /\ [][NextQueries]_vars /\ WF_vars(NextQueries)

\* ------------------------------------ generate_video_url on its own inputs
\* search items beside those of Segments: three elements, a time segment of
\* one element, search terms that are no list
OddItems ==
    { List(<< List(<<PyInt(0), PyInt(1)>>), List(<< Str(<<"c">>) >>), Str(<<"x">>) >>),
      List(<< List(<<PyInt(0)>>), List(<< Str(<<"c">>) >>) >>),
      List(<< List(<<PyInt(3), PyInt(4)>>), Str(<<"c">>) >>) }

SearchItems == Segments \cup OddItems

\* the values a caller can pass as timed_video_searches
VideoSearchInputs ==
    { None, Str(<<>>), Str(<<"q">>), [t |-> "dict"],
      Tuple(<< List(<< List(<<PyInt(0), PyInt(1)>>), List(<< Str(<<"c">>) >>) >>) >>) }
    \cup { List(l) : l \in ListsUpTo(SearchItems, MaxSegs) }

\* the values a caller can pass as video_server
VideoServers == { "pexel", "stable_diffusion", "youtube" }

InitVideo ==
    /\ groqKey = MinKeyLen + 1
    /\ orientation = "portrait"
    /\ video_server \in VideoServers
    /\ pc = "video_enter"
    /\ events = << Call("generate_video_url") >>
    /\ outcome = ""
    /\ script = Str(<<"story">>)
    /\ llmCalls = 0
    /\ audioFile = "ok"
    /\ attempts = <<>>
    /\ audio_success = Bool(TRUE)
    /\ method = "faster-whisper"
    /\ methods = <<>>
    /\ tried = <<>>
    /\ timed_captions = List(<<>>)
    /\ attempt = 0
    /\ lastReply = None
    /\ search_terms \in VideoSearchInputs
    /\ vi = 1
    /\ timed_video_urls = <<>>
    /\ used_links = {}
    /\ searches = {}
    /\ background_video_urls = None
    /\ renderCall = None
    /\ output_video = None
    /\ clip_i = 1
    /\ visual_clips = <<>>
    /\ renderLog = <<>>

NextVideo ==
    \/ VideoEnter
    \/ VideoItem

SpecVideo == InitVideo /\ [][NextVideo]_vars

\* -------------------------------------- get_output_media on its own inputs
\* entries of background_video_data: a segment with a URL, one without, one
\* whose time range is empty, and a value that is no entry
RenderEntries ==
    { List(<< List(<<PyFloat(0), PyFloat(1)>>), Str(<<"u1">>) >>),
      List(<< List(<<PyFloat(1), PyFloat(2)>>), None >>),
      List(<< List(<<PyInt(2), PyInt(2)>>), Str(<<"u2">>) >>),
      Str(<<"segment">>) }

\* entries of timed_captions: a caption as generate_timed_captions returns
\* it, one whose time range is empty, a nested one, and one without text
RenderCaptions ==
    { Tuple(<< Tuple(<<PyFloat(0), PyFloat(1)>>), Str(<<"a">>), "white" >>),
      Tuple(<< Tuple(<<PyFloat(1), PyFloat(1)>>), Str(<<"b">>), "white" >>),
      Tuple(<< Tuple(<< Tuple(<<PyFloat(1), PyFloat(2)>>), Str(<<"b">>) >>) >>),
      Tuple(<< Tuple(<<PyFloat(2), PyFloat(3)>>), Str(<<>>), "white" >>) }

InitRender ==
    /\ groqKey = MinKeyLen + 1
    /\ orientation \in Orientations
    /\ video_server = "pexel"
    /\ pc = "render_enter"
    /\ events = << Call("get_output_media") >>
    /\ outcome = ""
    /\ script = Str(<<"story">>)
    /\ llmCalls = 0
    /\ audioFile \in { "missing", "ok" }
    /\ attempts = <<>>
    /\ audio_success = Bool(TRUE)
    /\ method = "faster-whisper"
    /\ methods = <<>>
    /\ tried = <<>>
    /\ timed_captions \in { List(l) : l \in ListsUpTo(RenderCaptions, MaxCaps) }
    /\ attempt = 0
    /\ lastReply = None
    /\ search_terms = None
    /\ vi = 1
    /\ timed_video_urls = <<>>
    /\ used_links = {}
    /\ searches = {}
    /\ background_video_urls \in { List(l) : l \in ListsUpTo(RenderEntries, MaxSegs) }
    /\ renderCall = None
    /\ output_video = None
    /\ clip_i = 1
    /\ visual_clips = <<>>
    /\ renderLog = <<>>

NextRender ==
    \/ RenderEnter
    \/ RenderVideo
    \/ RenderCaption
    \/ RenderAudio
    \/ RenderComposite
    \/ RenderWrite

SpecRender == InitRender /\ [][NextRender]_vars

\* ------------------------------------------------------------------ claims
Stage(k) == StageOrder[k]

\* C1: in every run of main the stages are called one after another in the
\* order script, audio, captions, search queries, video lookup, render: the
\* k-th call is the call of the k-th stage, each call is followed by its own
\* return (or exception) before the next call, and no stage is called twice.
C1_StagesInOrder ==
    /\ Len(events) <= 2 * Len(StageOrder)
    /\ \A i \in 1..Len(events) :
         IF i % 2 = 1
         THEN events[i].ev = "call" /\ events[i].stage = Stage((i + 1) \div 2)
         ELSE events[i].ev \in {"ret", "raise"} /\ events[i].stage = events[i - 1].stage
    /\ (pc \in {"step1", "step2", "step3", "step4", "step5", "step5_merge",
                "step6", "done"} => Len(events) % 2 = 0)

\* C1 witness: a run that called all six stages has ended
C1_Witness == pc = "done" /\ Len(events) = 2 * Len(StageOrder)

FalsyReturn(e) ==
    /\ e.ev = "ret"
    /\ e.stage \in {"generate_script", "generate_audio", "generate_timed_captions"}
    /\ ~e.ok

\* C2: when generate_script, generate_audio or generate_timed_captions
\* returns a falsy value, main calls no further stage in that run: the falsy
\* return is the last event of the run and main ends with that stage's
\* failure message.
C2_FalsyResultStopsMain ==
    /\ \A i \in 1..Len(events) : FalsyReturn(events[i]) => i = Len(events)
    /\ (pc = "done" /\ events /= <<>> /\ FalsyReturn(Last(events)))
         => outcome \in { "Failed to generate script",
                          "Failed to generate audio narration",
                          "Failed to generate timed captions" }

\* C2 witness: main ended after generate_audio returned False
C2_Witness ==
    /\ pc = "done"
    /\ Len(events) = 4
    /\ Last(events) = Ret("generate_audio", Bool(FALSE))
    /\ outcome = "Failed to generate audio narration"

AudioReturned == pc = "step3" /\ Last(events).stage = "generate_audio"

\* C7: generate_audio never lets an exception reach its caller, and it
\* returns True exactly when its last synthesis attempt completed without
\* raising and the file then exists with a size above 0.
C7_AudioResult ==
    /\ \A i \in 1..Len(events) : events[i] /= Raise("generate_audio")
    /\ AudioReturned =>
         /\ attempts /= <<>>
         /\ Last(events).ev = "ret"
         /\ audio_success.v <=> (~Last(attempts).raised /\ Last(attempts).file = "ok")
         /\ Last(events).ok = audio_success.v

\* C7 witness: the primary attempt raised and the fallback produced the file
C7_Witness ==
    /\ AudioReturned
    /\ Len(attempts) = 2
    /\ attempts[1].raised
    /\ audio_success.v

\* C8: one call of generate_audio makes at most two synthesis attempts: the
\* first is the primary one, the second is the fallback (fixed text, voice
\* en-US-AriaNeural) and is made only after the primary attempt raised; a
\* primary attempt that did not raise ends the call, with False when the
\* file is missing or empty.
C8_FallbackOnlyAfterRaise ==
    /\ Len(attempts) <= 2
    /\ Len(attempts) >= 1 => attempts[1].kind = "primary"
    /\ Len(attempts) = 2 =>
         /\ attempts[1].raised
         /\ attempts[2].kind = "fallback"
         /\ attempts[2].voice = "en-US-AriaNeural"
         /\ attempts[2].text = FallbackText
    /\ (Len(attempts) = 1 /\ ~attempts[1].raised) =>
         /\ AudioReturned
         /\ attempts[1].file /= "ok" => ~audio_success.v
    /\ pc = "audio_fallback" => (Len(attempts) = 1 /\ attempts[1].raised)

\* C8 witness: the primary attempt did not raise and left an empty file
C8_Witness ==
    /\ AudioReturned
    /\ Len(attempts) = 1
    /\ ~attempts[1].raised
    /\ attempts[1].file = "empty"
    /\ ~audio_success.v

UrlOf(entry) == entry.v[2]

\* the list generate_video_url returned holds no video URL
NoFootage == \A i \in 1..Len(timed_video_urls) : UrlOf(timed_video_urls[i]).t = "None"

QueriesReturned ==
    Len(events) >= 8 /\ events[8].ev = "ret"
    /\ (Truthy(search_terms) => Len(events) >= 10)

\* C3: main calls get_output_media only when background footage was found:
\* when search-query generation gave nothing, or no entry of the list
\* generate_video_url returned has a URL, main ends on the audio-only path
\* and never calls the renderer.
C3_RenderOnlyWithFootage ==
    (pc = "done" /\ QueriesReturned /\ (~Truthy(search_terms) \/ NoFootage))
      => (outcome = "Creating audio-only version" /\ renderCall.t = "None")

\* C4: with a non-empty background video list, main's step 6 call is one
\* the renderer accepts, and main ends the step with the success message or
\* with 'Failed to render the final video', never in the unexpected-error
\* handler.
C4_RenderCallAccepted ==
    (pc = "done" /\ Truthy(background_video_urls))
      => /\ renderCall.t = "bound"
         /\ outcome \in { "SUCCESS", "Failed to render the final video" }

\* C5: the orientation given with --orientation is the one every later
\* stage uses: every video search asks for that orientation and the renderer
\* targets 1080x1920 for portrait and 1920x1080 for landscape.
C5_OrientationEverywhere ==
    /\ searches \subseteq { orientation }
    /\ renderCall.t = "bound" =>
         renderCall.resolution =
           (IF orientation = "portrait" THEN <<1080, 1920>> ELSE <<1920, 1080>>)

\* C6: with GROQ_API_KEY unset or of 30 characters or fewer, the run reaches
\* main, generate_script returns None without a request to the LLM, and main
\* ends with the script-failure message after that one call.
C6_InvalidKeyReachesMain ==
    (~(groqKey > 30) /\ pc \in {"done", "exited"})
      => /\ pc = "done"
         /\ outcome = "Failed to generate script"
         /\ llmCalls = 0
         /\ events = << Call("generate_script"), Ret("generate_script", None) >>

MethodReturnedCaptions ==
    pc = "step4" /\ tried /= <<>> /\ Last(tried).result.t = "list"
    /\ Len(Last(tried).result.v) > 0

WellFormedCaption(c) ==
    /\ c.t = "tuple" /\ Len(c.v) = 3
    /\ c.v[1].t = "tuple" /\ Len(c.v[1].v) = 2
    /\ c.v[1].v[1].k = "float" /\ c.v[1].v[2].k = "float"
    /\ c.v[2].t = "str" /\ Len(c.v[2].v) > 0
    /\ c.v[2].v[1] /= " " /\ c.v[2].v[Len(c.v[2].v)] /= " "

\* the returned caption c is the method's caption r: the same times and
\* colour, and r's text without the whitespace around it
CaptionOf(c, r) ==
    /\ c.v[1].v[1].n = r.v[1].v[1].n /\ r.v[1].v[1].k \in {"int", "float"}
    /\ c.v[1].v[2].n = r.v[1].v[2].n /\ r.v[1].v[2].k \in {"int", "float"}
    /\ c.v[3] = r.v[3]
    /\ \E a, b \in 0..Len(r.v[2].v) :
         /\ a + Len(c.v[2].v) + b = Len(r.v[2].v)
         /\ SubSeq(r.v[2].v, a + 1, a + Len(c.v[2].v)) = c.v[2].v
         /\ \A k \in 1..Len(r.v[2].v) :
              (k <= a \/ k > a + Len(c.v[2].v)) => r.v[2].v[k] = " "

OrderedSubsequence(res, raw) ==
    \E f \in [1..Len(res) -> 1..Len(raw)] :
      /\ \A k \in 1..Len(res) : CaptionOf(res[k], raw[f[k]])
      /\ \A k \in 1..(Len(res) - 1) : f[k] < f[k + 1]

\* C9: every element of the list generate_timed_captions returns is a
\* 3-tuple ((start, end), text, color) with float start and end and a
\* non-empty text without leading or trailing whitespace, and the list is an
\* order-preserving sub-sequence of the captions the transcription method
\* produced.
C9_CaptionsWellFormed ==
    /\ \A k \in 1..Len(timed_captions.v) : WellFormedCaption(timed_captions.v[k])
    /\ MethodReturnedCaptions =>
         OrderedSubsequence(timed_captions.v, Last(tried).result.v)
    /\ (pc = "step4" /\ ~MethodReturnedCaptions) => timed_captions.v = <<>>

\* C9 witness: the method produced two captions, one was dropped and the
\* other came back with its text stripped and its times as floats
C9_Witness ==
    /\ MethodReturnedCaptions
    /\ Len(Last(tried).result.v) = 2
    /\ Len(timed_captions.v) = 1
    /\ timed_captions.v[1] /= Last(tried).result.v[1]
    /\ timed_captions.v[1] /= Last(tried).result.v[2]

ExpectedOrder ==
    CASE method = "wav2vec2" -> << "wav2vec2", "faster-whisper", "vosk", "basic-whisper" >>
      [] method = "vosk" -> << "vosk", "faster-whisper", "wav2vec2", "basic-whisper" >>
      [] method = "basic-whisper" -> << "basic-whisper", "faster-whisper", "wav2vec2", "vosk" >>
      [] OTHER -> << "faster-whisper", "wav2vec2", "vosk", "basic-whisper" >>

Failed(result) == result.t = "raises" \/ Len(result.v) = 0

\* C10: generate_timed_captions tries the methods in the order
\* faster-whisper, wav2vec2, vosk, basic-whisper, a requested other method
\* first; each method at most once, a method only after every method before
\* it raised or returned no captions, none after a method returned captions,
\* and none at all when the audio file is missing or empty.
C10_MethodsInOrder ==
    /\ Len(tried) <= 4
    /\ \A i \in 1..Len(tried) :
         /\ tried[i].name = ExpectedOrder[i]
         /\ i < Len(tried) => Failed(tried[i].result)
         /\ ~Failed(tried[i].result) => pc = "step4"
    /\ \A i, j \in 1..Len(tried) : i /= j => tried[i].name /= tried[j].name
    /\ audioFile \in {"missing", "empty"} => tried = <<>>
    /\ (pc = "captions_try" /\ tried /= <<>>) => Failed(Last(tried).result)

\* C10 witness: vosk was requested, it and faster-whisper gave nothing, and
\* wav2vec2 returned captions
C10_Witness ==
    /\ pc = "step4"
    /\ method = "vosk"
    /\ Len(tried) = 3
    /\ tried[3].name = "wav2vec2"
    /\ ~Failed(tried[3].result)

\* getVideoSearchQueriesTimed has returned to its caller
QueriesDone == pc = "step5" /\ Last(events).stage = "getVideoSearchQueriesTimed"

\* a result the function hands back: a parsed list with a valid segment
Usable(reply) == reply.t = "list" /\ Len(reply.v) > 0 /\ CountValid(reply.v) > 0

\* a result an attempt before the last one accepts
Accepted(reply) ==
    Usable(reply) /\ CoverageAccepts(reply.v, timed_captions.v, CountValid(reply.v))

C11_CallsBounded ==
    /\ llmCalls <= max_retries
    /\ pc = "queries_attempt" =>
         /\ attempt < max_retries /\ llmCalls = attempt
         /\ attempt > 0 => ~Accepted(lastReply)
    /\ QueriesDone =>
         /\ Last(events).ev = "ret"
         /\ ~Truthy(timed_captions) => (llmCalls = 0 /\ search_terms = None)
         /\ Truthy(timed_captions) => llmCalls = attempt + 1
         /\ search_terms /= None =>
              /\ search_terms = lastReply
              /\ Usable(lastReply)
              /\ llmCalls < max_retries => Accepted(lastReply)
         /\ (search_terms = None /\ Truthy(timed_captions)) =>
              /\ llmCalls = max_retries
              /\ ~Usable(lastReply)
         /\ (llmCalls = max_retries
               /\ lastReply.t \in {"call_failed", "blank", "unparsable"}) =>
              search_terms = None

\* C11: getVideoSearchQueriesTimed always returns, after at most 3 requests
\* to the LLM, one per attempt; for an empty (or None) caption list it
\* returns None without a request; it returns a list only when an attempt
\* gave a usable one, and None after three attempts when none did, a blank
\* or unparsable answer on the last attempt included.
C11_QueriesTerminate ==
    /\ []C11_CallsBounded
    /\ (pc = "queries_enter" ~> QueriesDone)

\* C11 witness: the third attempt got an answer no parsing method could
\* read, and the function returned None
C11_Witness ==
    /\ QueriesDone
    /\ llmCalls = max_retries
    /\ lastReply.t = "unparsable"
    /\ search_terms = None

\* generate_video_url has returned to its caller
VideoDone == pc = "step5_merge" /\ Last(events).stage = "generate_video_url"

IsNumber(x) == x.k \in {"int", "float"}

\* the item's time segment is a list of two numbers
TimeUsable(item) ==
    /\ item.t = "list" /\ Len(item.v) = 2
    /\ item.v[1].t = "list" /\ Len(item.v[1].v) = 2
    /\ IsNumber(item.v[1].v[1]) /\ IsNumber(item.v[1].v[2])

\* the item is [[t1, t2], [term, ...]] with at least one term
WellFormedItem(item) ==
    TimeUsable(item) /\ item.v[2].t = "list" /\ Len(item.v[2].v) > 0

\* entry is what the claim names for item
EntryFor(entry, item) ==
    /\ entry.t = "list" /\ Len(entry.v) = 2
    /\ entry.v[1].t = "list" /\ Len(entry.v[1].v) = 2
    /\ IF TimeUsable(item)
       THEN /\ entry.v[1].v[1].n = item.v[1].v[1].n
            /\ entry.v[1].v[2].n = item.v[1].v[2].n
            /\ IsNumber(entry.v[1].v[1]) /\ IsNumber(entry.v[1].v[2])
       ELSE entry.v[1] = List(<<PyInt(-1), PyInt(-1)>>)
    /\ IF WellFormedItem(item)
       THEN entry.v[2].t = "None" \/ (entry.v[2].t = "str" /\ entry.v[2].v[1] \in Urls)
       ELSE entry.v[2].t = "None"

\* C12: for the pexel server and a non-empty list, generate_video_url
\* returns one entry per search item, in the items' order: [[t1, t2], URL or
\* None] for a well-formed item, and an entry with URL None for any other
\* item, its time [-1, -1] when the item's time segment is unusable.
C12_OneEntryPerItem ==
    /\ pc = "video_item" =>
         /\ Len(timed_video_urls) = vi - 1
         /\ \A i \in 1..Len(timed_video_urls) :
              EntryFor(timed_video_urls[i], search_terms.v[i])
    /\ (VideoDone /\ video_server = "pexel"
          /\ search_terms.t = "list" /\ Len(search_terms.v) > 0) =>
         /\ background_video_urls.t = "list"
         /\ Len(background_video_urls.v) = Len(search_terms.v)
         /\ \A i \in 1..Len(search_terms.v) :
              EntryFor(background_video_urls.v[i], search_terms.v[i])

\* C12 witness: of two items the first is no list and got the placeholder,
\* the second is well formed and got a URL
C12_Witness ==
    /\ VideoDone /\ video_server = "pexel"
    /\ search_terms.t = "list" /\ Len(search_terms.v) = 2
    /\ search_terms.v[1].t = "str"
    /\ WellFormedItem(search_terms.v[2])
    /\ background_video_urls.v[1] = Placeholder
    /\ background_video_urls.v[2].v[2].t = "str"

\* the input is None, empty or no list
UnusableInput ==
    \/ search_terms.t = "None"
    \/ (search_terms.t \in {"list", "tuple", "str"} /\ Len(search_terms.v) = 0)
    \/ search_terms.t /= "list"

\* C13: for an input that is None, empty or no list, for an unknown video
\* server and for 'stable_diffusion', generate_video_url returns [] without
\* raising and without a video search; it never enters the loop over the
\* items.
C13_EmptyListForBadCall ==
    /\ \A i \in 1..Len(events) : events[i] /= Raise("generate_video_url")
    /\ (UnusableInput \/ video_server /= "pexel") =>
         /\ pc /= "video_item"
         /\ searches = {}
         /\ timed_video_urls = <<>>
         /\ VideoDone =>
              (Last(events).ev = "ret" /\ background_video_urls = List(<<>>))

\* C13 witness: a well-formed list handed to 'stable_diffusion' came back
\* as []
C13_Witness ==
    /\ VideoDone
    /\ video_server = "stable_diffusion"
    /\ search_terms.t = "list" /\ Len(search_terms.v) = 2
    /\ WellFormedItem(search_terms.v[1])
    /\ background_video_urls = List(<<>>)

\* get_output_media has returned to its caller
RenderDone == pc = "rendered"

LogOf(step) == SelectSeq(renderLog, LAMBDA e : e.step = step)

StepRaised(step) == \E k \in 1..Len(renderLog) :
    renderLog[k].step = step /\ renderLog[k].outcome = "raised"

\* the loop over seq has handled its first n items, one after another
HandledInOrder(step, n) ==
    /\ Len(LogOf(step)) = n
    /\ \A k \in 1..n : LogOf(step)[k].index = k

\* C14: get_output_media returns 'rendered_video.mp4' exactly when
\* write_videofile ran and did not raise, and None when no clip was
\* created, when loading the audio, compositing or writing raised; every
\* segment and every caption is handled, whatever the items before it did,
\* and each adds a clip exactly when its own processing succeeded.
C14_RenderResult ==
    /\ Len(visual_clips) =
         Cardinality({ k \in 1..Len(renderLog) : renderLog[k].outcome = "clip" })
    /\ pc = "render_videos" => HandledInOrder("video", clip_i - 1)
    /\ pc = "render_captions" =>
         /\ HandledInOrder("video", Len(background_video_urls.v))
         /\ HandledInOrder("caption", clip_i - 1)
    /\ pc \in {"render_audio", "render_composite", "render_write", "rendered"} =>
         /\ HandledInOrder("video", Len(background_video_urls.v))
         /\ HandledInOrder("caption", Len(timed_captions.v))
    /\ RenderDone =>
         /\ Last(events) = Ret("get_output_media", output_video)
         /\ output_video \in { OUTPUT_FILE_NAME, None }
         /\ output_video = OUTPUT_FILE_NAME <=>
              (renderLog /= <<>> /\ Last(renderLog) = Logged("write", 0, "ok"))
         /\ visual_clips = <<>> =>
              (output_video = None /\ LogOf("audio") = <<>> /\ LogOf("write") = <<>>)
         /\ (StepRaised("audio") \/ StepRaised("composite") \/ StepRaised("write")) =>
              output_video = None
         /\ LogOf("write") /= <<>> =>
              (LogOf("audio") = << Logged("audio", 0, "ok") >>
               /\ LogOf("composite") = << Logged("composite", 0, "ok") >>)

\* C14 witness: the first segment's processing raised, the second segment
\* and a caption gave clips, and the file was written and its name returned
C14_Witness ==
    /\ RenderDone
    /\ output_video = OUTPUT_FILE_NAME
    /\ Len(background_video_urls.v) = 2
    /\ renderLog[1] = Logged("video", 1, "raised")
    /\ renderLog[2] = Logged("video", 2, "clip")
    /\ \E k \in 1..Len(renderLog) : renderLog[k].step = "caption" /\ renderLog[k].outcome = "clip"

====
